---- MODULE Spec2Model ----
(***************************************************************************)
(* Model of repoze.catalog's catalog.py: the discriminating index mixin    *)
(* (CatalogIndex), the field index (CatalogFieldIndex: unindex_doc, sort), *)
(* the keyword index (CatalogKeywordIndex: apply, _insert_forward, search) *)
(* and the Catalog (index_doc, unindex_doc, updateIndex, updateIndexes,    *)
(* searchResults).                                                         *)
(*                                                                         *)
(* Every call is one action; it leaves its outcome in `ret`.  The caller   *)
(* then takes the outcome (Return) before it makes the next call.          *)
(***************************************************************************)
EXTENDS Integers, Sequences, FiniteSets, TLC

VARIABLES
    indexes,    \* name -> field index: [fwd, rev, num] (_fwd_index, _rev_index, _num_docs)
    use_lazy,   \* CatalogFieldIndex.use_lazy  (override for unit tests)
    use_nbest,  \* CatalogFieldIndex.use_nbest (override for unit tests)
    kwfwd,      \* CatalogKeywordIndex._fwd_index: term -> set of docids
    query,      \* the caller's structured keyword query (a dict the caller keeps)
    ret         \* outcome of the call in progress, [op |-> "none"] between calls

vars == <<indexes, use_lazy, use_nbest, kwfwd, query, ret>>

---------------------------------------------------------------------------
(* Bounds *)

MaxDoc == 3         \* document ids of the stand-alone field index: 1..MaxDoc
MaxVal == 2         \* plain indexed values: None, 1..MaxVal
MaxLimit == 2       \* limit of a sort or a search: up to MaxLimit

(* Values a discriminator can produce *)
None == 0           \* Python's None: a plain value, ordered before all others
Marker == -1        \* _marker: the discriminator found no value
PersistentObj == -2 \* an instance of persistent.Persistent

DocIds == 1..MaxDoc
Values == None..MaxVal
DocVals == Values \cup {Marker, PersistentObj}

IndexNames == {"A", "B"}     \* the field indexes registered in the catalog

---------------------------------------------------------------------------
(* Mappings (dict / BTree) as functions with a finite domain *)

EmptyMap == [x \in {} |-> 0]
Put(f, k, v) == [x \in (DOMAIN f) \cup {k} |-> IF x = k THEN v ELSE f[x]]
Del(f, k) == [x \in (DOMAIN f) \ {k} |-> f[x]]

EmptyIndex == [fwd |-> EmptyMap, rev |-> EmptyMap, num |-> 0]

---------------------------------------------------------------------------
(* Field index: indexing *)

\* The body shared by the two unindex_doc: docid is in rev_index with `value`.
RemoveEntry(ix, docid, value) ==
    LET rev1 == Del(ix.rev, docid)
        keyError == value \notin DOMAIN ix.fwd \/ docid \notin ix.fwd[value]
        fwd1 == IF keyError THEN ix.fwd          \* set = 1: nothing is deleted
                ELSE IF ix.fwd[value] \ {docid} = {}
                     THEN Del(ix.fwd, value)
                     ELSE Put(ix.fwd, value, ix.fwd[value] \ {docid})
    IN  [fwd |-> fwd1, rev |-> rev1, num |-> ix.num - 1]

\* Variant of unindex_doc that leaves out self._num_docs.change(-1).
MutUnindexKeepsCount(ix, docid) ==
    IF docid \notin DOMAIN ix.rev THEN ix
    ELSE [RemoveEntry(ix, docid, ix.rev[docid]) EXCEPT !.num = ix.num]

\* CatalogFieldIndex.unindex_doc: absence is tested against _marker.
CatalogFieldIndex_unindex_doc(ix, docid) ==
    IF docid \notin DOMAIN ix.rev THEN ix
    ELSE RemoveEntry(ix, docid, ix.rev[docid])

\* FieldIndex.unindex_doc of the base class, the one the override replaces
\* "to be able to index None values": rev_index.get(docid) is None both for an
\* absent docid and for a docid indexed under None, and then it returns.
FieldIndex_unindex_doc(ix, docid) ==
    IF docid \notin DOMAIN ix.rev \/ ix.rev[docid] = None THEN ix
    ELSE RemoveEntry(ix, docid, ix.rev[docid])

\* FieldIndex.index_doc of the base class: self.unindex_doc is the override.
FieldIndex_index_doc(ix, docid, value) ==
    LET ix1 == IF docid \in DOMAIN ix.rev
               THEN CatalogFieldIndex_unindex_doc(ix, docid) ELSE ix
        old == IF value \in DOMAIN ix1.fwd THEN ix1.fwd[value] ELSE {}
    IN  [fwd |-> Put(ix1.fwd, value, old \cup {docid}),
         rev |-> Put(ix1.rev, docid, value),
         num |-> ix1.num + 1]

\* Variant of index_doc that drops the previous entry before it rejects a
\* persistent value.
MutIndexBeforeCheck(ix, docid, value) ==
    IF value = Marker
    THEN [ix |-> FieldIndex_unindex_doc(ix, docid), err |-> "none"]
    ELSE IF value = PersistentObj
         THEN [ix |-> CatalogFieldIndex_unindex_doc(ix, docid), err |-> "ValueError"]
         ELSE [ix |-> FieldIndex_index_doc(ix, docid, value), err |-> "none"]

\* CatalogIndex.index_doc, after the discriminator has produced `value`.
\* The no-value branch calls super(CatalogIndex, self).unindex_doc, which is
\* the base class's unindex_doc, not the override of CatalogFieldIndex.
CatalogIndex_index_doc(ix, docid, value) ==
    IF value = Marker
    THEN [ix |-> FieldIndex_unindex_doc(ix, docid), err |-> "none"]
    ELSE IF value = PersistentObj
         THEN [ix |-> ix, err |-> "ValueError"]
         ELSE [ix |-> FieldIndex_index_doc(ix, docid, value), err |-> "none"]

\* The discriminator of the index registered as `name` reads attribute `name`;
\* a document without that attribute yields _marker.
Documents == [IndexNames -> DocVals]
Discriminate(name, obj) == obj[name]

---------------------------------------------------------------------------
(* Field index: sort *)

StopIterationObj == -3   \* the StopIteration class, when it is yielded as an item

NoLimit == <<>>          \* limit=None; a given limit n is <<n>>
CandIds == 1..(MaxDoc + 3)
Limits == {NoLimit} \cup {<<n>> : n \in 0..MaxLimit}

Min(S) == CHOOSE x \in S : \A y \in S : x <= y

\* Iteration over an IFSet / the keys of a BTree: ascending.
RECURSIVE SetToSeq(_)
SetToSeq(S) == IF S = {} THEN <<>> ELSE <<Min(S)>> \o SetToSeq(S \ {Min(S)})

Front(s) == SubSeq(s, 1, Len(s) - 1)
Take(s, n) == SubSeq(s, 1, IF n < Len(s) THEN n ELSE Len(s))
Drop(s, n) == SubSeq(s, n + 1, Len(s))

\* rev_index.get(docid): None for a docid that is not in the index.
RevGet(ix, docid) == IF docid \in DOMAIN ix.rev THEN ix.rev[docid] ELSE None

\* sorted(docids, key=rev_index.get, reverse=reverse): stable in both directions.
InsertByKey(s, d, ix, reverse) ==
    LET stays(e) == IF reverse THEN RevGet(ix, e) >= RevGet(ix, d)
                               ELSE RevGet(ix, e) <= RevGet(ix, d)
        n == Cardinality({i \in 1..Len(s) : stays(s[i])})
    IN  Take(s, n) \o <<d>> \o Drop(s, n)

RECURSIVE SortedByKey(_, _, _)
SortedByKey(s, ix, reverse) ==
    IF s = <<>> THEN <<>>
    ELSE InsertByKey(SortedByKey(Front(s), ix, reverse), s[Len(s)], ix, reverse)

\* Comparison of (val, docid) tuples.
PairLE(p, q) == p[1] < q[1] \/ (p[1] = q[1] /\ p[2] <= q[2])

\* bisect.insort(result, elem)
Insort(result, elem) ==
    LET n == Cardinality({i \in 1..Len(result) : PairLE(result[i], elem)})
    IN  Take(result, n) \o <<elem>> \o Drop(result, n)

RECURSIVE SortedPairs(_)
SortedPairs(s) ==
    IF s = <<>> THEN <<>> ELSE Insort(SortedPairs(Front(s)), s[Len(s)])

Reversed(s) == [i \in 1..Len(s) |-> s[Len(s) + 1 - i]]
Ids(pairs) == [i \in 1..Len(pairs) |-> pairs[i][2]]

\* nsort(): (val, docid) for the docids that are in the reverse index.
NSort(ix, docids) ==
    LET present == SelectSeq(SetToSeq(docids), LAMBDA d : d \in DOMAIN ix.rev)
    IN  [i \in 1..Len(present) |-> <<ix.rev[present[i]], present[i]>>]

\* The loop lifted from heapq.nsmallest (lines 143-148).
RECURSIVE NSmallestLoop(_, _)
NSmallestLoop(result, rest) ==
    IF rest = <<>> THEN result
    ELSE IF PairLE(result[Len(result)], Head(rest))
         THEN NSmallestLoop(result, Tail(rest))
         ELSE NSmallestLoop(Front(Insort(result, Head(rest))), Tail(rest))

\* n-best, ascending (lines 135-150).
NBestAscending(ix, docids, limit) ==
    LET it == NSort(ix, docids)
        n == IF limit = NoLimit THEN Len(it) ELSE limit[1]
        result == SortedPairs(Take(it, n))
    IN  IF result = <<>>
        THEN \* `yield StopIteration` emits the class, then result[-1] fails
             {[out |-> <<StopIterationObj>>, err |-> "IndexError"]}
        ELSE {[out |-> Ids(NSmallestLoop(result, Drop(it, n))), err |-> "none"]}

\* n-best, descending (lines 126-132): heapq.nlargest(limit, iterable).
\* With limit None the C implementation rejects the argument and the Python
\* implementation returns every pair; which one runs depends on the build.
NBestDescending(ix, docids, limit) ==
    LET all == Reversed(SortedPairs(NSort(ix, docids)))
    IN  IF limit = NoLimit
        THEN {[out |-> <<>>, err |-> "TypeError"], [out |-> Ids(all), err |-> "none"]}
        ELSE {[out |-> Ids(Take(all, limit[1])), err |-> "none"]}

\* `if limit and n >= limit: raise StopIteration` in front of every yield.
Truncate(s, limit) ==
    IF limit # NoLimit /\ limit[1] # 0 THEN Take(s, limit[1]) ELSE s

\* lazy-ascending traversal of the forward index (lines 162-169).
RECURSIVE Buckets(_, _, _)
Buckets(ix, keys, docids) ==
    IF keys = <<>> THEN <<>>
    ELSE SetToSeq(docids \cap ix.fwd[Head(keys)]) \o Buckets(ix, Tail(keys), docids)

LazyAscending(ix, docids, limit) ==
    {[out |-> Truncate(Buckets(ix, SetToSeq(DOMAIN ix.fwd), docids), limit),
      err |-> "none"]}

\* full sort (lines 174-182).
FullSort(ix, docids, reverse, limit) ==
    LET s == SortedByKey(SetToSeq(docids), ix, reverse)
    IN  {[out |-> Truncate(SelectSeq(s, LAMBDA d : d \in DOMAIN ix.rev), limit),
          err |-> "none"]}

\* CatalogFieldIndex.sort, consumed to its end: the set of outcomes
\* [out: the items yielded, err: the exception that ended the iteration].
CatalogFieldIndex_sort(ix, docids, reverse, limit, lazyOverride, nbestOverride) ==
    IF limit # NoLimit /\ limit[1] < 1
    THEN {[out |-> <<>>, err |-> "ValueError"]}
    ELSE IF docids = {} \/ ix.num = 0
    THEN {[out |-> <<>>, err |-> "none"]}
    ELSE LET rlen == Cardinality(docids)
             lazy == lazyOverride \/ rlen > ix.num * ((rlen \div 100) + 1)
             nbest == nbestOverride \/ (limit # NoLimit /\ limit[1] * 4 < rlen)
         IN  IF nbest
             THEN IF reverse THEN NBestDescending(ix, docids, limit)
                             ELSE NBestAscending(ix, docids, limit)
             ELSE IF lazy /\ ~reverse
                  THEN LazyAscending(ix, docids, limit)
                  ELSE FullSort(ix, docids, reverse, limit)

---------------------------------------------------------------------------
(* State machine: the stand-alone field index "A" *)

NoRet == [op |-> "none"]

Init ==
    /\ indexes = [n \in IndexNames |-> EmptyIndex]
    /\ use_lazy = FALSE
    /\ use_nbest = FALSE
    /\ kwfwd = EmptyMap
    /\ query = [query |-> <<>>]
    /\ ret = NoRet

Return ==
    /\ ret.op # "none"
    /\ ret' = NoRet
    /\ UNCHANGED <<indexes, use_lazy, use_nbest, kwfwd, query>>

\* index.index_doc(docid, obj) on the field index "A"
IndexDoc ==
    /\ ret.op = "none"
    /\ \E docid \in DocIds, obj \in Documents :
         LET r == CatalogIndex_index_doc(indexes["A"], docid, Discriminate("A", obj))
         IN  /\ indexes' = [indexes EXCEPT !["A"] = r.ix]
             /\ ret' = [op |-> "index_doc", docid |-> docid,
                        value |-> Discriminate("A", obj),
                        pre |-> indexes["A"], err |-> r.err]
    /\ UNCHANGED <<use_lazy, use_nbest, kwfwd, query>>

\* index.unindex_doc(docid) on the field index "A"
UnindexDoc ==
    /\ ret.op = "none"
    /\ \E docid \in DocIds :
         /\ indexes' = [indexes EXCEPT
                          !["A"] = CatalogFieldIndex_unindex_doc(indexes["A"], docid)]
         /\ ret' = [op |-> "unindex_doc", docid |-> docid,
                    pre |-> indexes["A"], err |-> "none"]
    /\ UNCHANGED <<use_lazy, use_nbest, kwfwd, query>>

Next == IndexDoc \/ UnindexDoc \/ Return

Spec == Init /\ [][Next]_vars

---------------------------------------------------------------------------
(* State machine: the field index "A" with its sort *)

\* A unit test sets index.use_lazy / index.use_nbest.
SetOverrides ==
    /\ ret.op = "none"
    /\ \E l \in BOOLEAN, n \in BOOLEAN :
         /\ <<l, n>> # <<use_lazy, use_nbest>>
         /\ use_lazy' = l
         /\ use_nbest' = n
    /\ UNCHANGED <<indexes, kwfwd, query, ret>>

\* list(index.sort(docids, reverse, limit)) on the field index "A"
Sort ==
    /\ ret.op = "none"
    /\ \E docids \in SUBSET CandIds, reverse \in BOOLEAN, limit \in Limits :
         \E r \in CatalogFieldIndex_sort(indexes["A"], docids, reverse, limit,
                                         use_lazy, use_nbest) :
            ret' = [op |-> "sort", docids |-> docids, reverse |-> reverse,
                    limit |-> limit, out |-> r.out, err |-> r.err]
    /\ UNCHANGED <<indexes, use_lazy, use_nbest, kwfwd, query>>

NextSort == IndexDoc \/ UnindexDoc \/ SetOverrides \/ Sort \/ Return

SpecSort == Init /\ [][NextSort]_vars

---------------------------------------------------------------------------
(* Properties of the field index *)

IndexA == indexes["A"]

\* "ids is a correct answer of sort(docids, reverse, limit)" on index ix.
SortedAnswer(ix, docids, reverse, limit, ids) ==
    LET present == docids \cap DOMAIN ix.rev
        emitted == {ids[i] : i \in 1..Len(ids)}
        before(x, y) == IF reverse THEN ix.rev[x] >= ix.rev[y]
                                   ELSE ix.rev[x] <= ix.rev[y]
    IN  /\ emitted \subseteq present
        /\ Cardinality(emitted) = Len(ids)
        /\ Len(ids) = IF limit # NoLimit /\ limit[1] < Cardinality(present)
                      THEN limit[1] ELSE Cardinality(present)
        /\ \A i, j \in 1..Len(ids) : i < j => before(ids[i], ids[j])
        /\ \A x \in emitted, y \in present \ emitted : before(x, y)

\* C2: whatever the strategy, sort emits the candidate ids that are in the
\* index, ordered by value and truncated to limit, emits nothing else and
\* raises no error, for every limit that is absent or >= 1.
C2_SortCorrect ==
    (ret.op = "sort" /\ (ret.limit = NoLimit \/ ret.limit[1] >= 1))
        => /\ ret.err = "none"
           /\ SortedAnswer(IndexA, ret.docids, ret.reverse, ret.limit, ret.out)

InBucket(ix, docid) == \E v \in DOMAIN ix.fwd : docid \in ix.fwd[v]

\* C1: on a field index, after any sequence of index_doc / unindex_doc calls,
\* every id of the reverse index is a member of forward[reverse[id]], and
\* DocCount is the number of entries of the reverse index.
C1_ForwardReverseConsistent ==
    /\ \A d \in DOMAIN IndexA.rev :
          /\ IndexA.rev[d] \in DOMAIN IndexA.fwd
          /\ d \in IndexA.fwd[IndexA.rev[d]]
    /\ IndexA.num = Cardinality(DOMAIN IndexA.rev)

\* An id indexed under one value has just been indexed again under another,
\* next to a second indexed document.
C1_Witness ==
    /\ ret.op = "index_doc"
    /\ ret.docid \in DOMAIN ret.pre.rev
    /\ ret.value \in Values
    /\ ret.pre.rev[ret.docid] # ret.value
    /\ ret.docid \in DOMAIN IndexA.rev
    /\ IndexA.num = 2

\* C8: index_doc with no discriminated value raises nothing and leaves the id
\* absent from the index exactly as unindex_doc(id) would: in no forward
\* bucket, not in the reverse index, DocCount one less if it was indexed
\* (under whatever value) and unchanged otherwise.
C8_NoValueRemovesId ==
    (ret.op = "index_doc" /\ ret.value = Marker)
        => /\ ret.err = "none"
           /\ ret.docid \notin DOMAIN IndexA.rev
           /\ ~InBucket(IndexA, ret.docid)
           /\ IndexA.num = ret.pre.num
                             - (IF ret.docid \in DOMAIN ret.pre.rev THEN 1 ELSE 0)
           /\ IndexA = CatalogFieldIndex_unindex_doc(ret.pre, ret.docid)

\* C9: index_doc with a persistent object as the discriminated value fails
\* with ValueError (InvalidValue) and leaves forward index, reverse index and
\* DocCount as they were.
C9_InvalidValueLeavesIndex ==
    (ret.op = "index_doc" /\ ret.value = PersistentObj)
        => /\ ret.err = "ValueError"
           /\ IndexA = ret.pre

\* The rejected call was for an id that is indexed, and it still is.
C9_Witness ==
    /\ ret.op = "index_doc"
    /\ ret.value = PersistentObj
    /\ ret.err = "ValueError"
    /\ ret.docid \in DOMAIN ret.pre.rev
    /\ ret.docid \in DOMAIN IndexA.rev

---------------------------------------------------------------------------
(* Keyword index *)

MaxKwDoc == 2       \* document ids of the keyword index: 1..MaxKwDoc
MaxQueryLen == 2    \* terms in one keyword query

KwDocIds == 1..MaxKwDoc
Terms == {"red", "big"}                \* the terms documents carry
QueryTerms == Terms \cup {"blue"}      \* "blue" is never indexed

RECURSIVE SeqsUpTo(_, _)
SeqsUpTo(S, n) ==
    IF n = 0 THEN {<<>>}
    ELSE LET shorter == SeqsUpTo(S, n - 1)
         IN  shorter \cup {Append(s, x) : s \in shorter, x \in S}

TermLists == SeqsUpTo(QueryTerms, MaxQueryLen)

\* CatalogKeywordIndex._insert_forward
RECURSIVE CatalogKeywordIndex_insert_forward(_, _, _)
CatalogKeywordIndex_insert_forward(idx, docid, words) ==
    IF words = <<>> THEN idx
    ELSE LET word == Head(words)
             idx1 == IF word \notin DOMAIN idx THEN Put(idx, word, {}) ELSE idx
         IN  CatalogKeywordIndex_insert_forward(
                 Put(idx1, word, idx1[word] \cup {docid}), docid, Tail(words))

\* family.IF.intersection / family.IF.union: the running result rs is <<>>
\* for None and <<set>> otherwise; with None the other argument is returned.
IF_intersection(rs, docids) == IF rs = <<>> THEN <<docids>> ELSE <<rs[1] \cap docids>>
IF_union(rs, docids) == IF rs = <<>> THEN <<docids>> ELSE <<rs[1] \cup docids>>

RECURSIVE SearchLoop(_, _, _, _)
SearchLoop(idx, words, operator, rs) ==
    IF words = <<>> THEN rs
    ELSE LET docids == IF Head(words) \in DOMAIN idx THEN idx[Head(words)] ELSE {}
             rs1 == IF operator = "and" THEN IF_intersection(rs, docids)
                                        ELSE IF_union(rs, docids)
         IN  SearchLoop(idx, Tail(words), operator, rs1)

\* Variant of search whose running result starts as the empty set, not None.
MutSearchSeedsEmpty(idx, q, operator) ==
    LET words == IF q.isstr THEN <<q.terms[1]>> ELSE q.terms
    IN  SearchLoop(idx, words, operator, <<{}>>)[1]

\* CatalogKeywordIndex.search: q is [isstr, terms]; a bare string is one term.

CatalogKeywordIndex_search(idx, q, operator) ==
    LET words == IF q.isstr THEN <<q.terms[1]>> ELSE q.terms
        rs == SearchLoop(idx, words, operator, <<>>)
    IN  IF rs # <<>> /\ rs[1] # {} THEN rs[1] ELSE {}

\* CatalogKeywordIndex.apply on a dict: [query |-> terms] with or without an
\* "operator" key.  Returns the result and the dict as the call leaves it.
CatalogKeywordIndex_apply(idx, d) ==
    LET has == "operator" \in DOMAIN d
        operator == IF has THEN d.operator ELSE "and"
        d1 == IF has THEN [query |-> d.query] ELSE d       \* query.pop('operator')
    IN  [result |-> CatalogKeywordIndex_search(
                        idx, [isstr |-> FALSE, terms |-> d1.query], operator),
         operator |-> operator,
         dict |-> d1]

StructuredQueries ==
    {[query |-> t] : t \in TermLists}
        \cup {[query |-> t, operator |-> o] : t \in TermLists, o \in {"and", "or"}}

\* index._insert_forward(docid, words)
InsertForward ==
    /\ ret.op = "none"
    /\ \E docid \in KwDocIds, words \in SeqsUpTo(Terms, Cardinality(Terms)) :
         /\ words # <<>>
         /\ kwfwd' = CatalogKeywordIndex_insert_forward(kwfwd, docid, words)
         /\ ret' = [op |-> "insert_forward"]
    /\ UNCHANGED <<indexes, use_lazy, use_nbest, query>>

\* index.search(query, operator) with a term list or a single string
Search ==
    /\ ret.op = "none"
    /\ \E q \in {[isstr |-> FALSE, terms |-> t] : t \in TermLists}
                  \cup {[isstr |-> TRUE, terms |-> <<t>>] : t \in QueryTerms},
          operator \in {"and", "or"} :
         ret' = [op |-> "search", q |-> q, operator |-> operator,
                 result |-> CatalogKeywordIndex_search(kwfwd, q, operator)]
    /\ UNCHANGED <<indexes, use_lazy, use_nbest, kwfwd, query>>

\* The caller builds a structured query.
MakeQuery ==
    /\ ret.op = "none"
    /\ \E d \in StructuredQueries : d # query /\ query' = d
    /\ UNCHANGED <<indexes, use_lazy, use_nbest, kwfwd, ret>>

\* index.apply(query) with the caller's structured query
Apply ==
    /\ ret.op = "none"
    /\ LET r == CatalogKeywordIndex_apply(kwfwd, query)
       IN  /\ query' = r.dict
           /\ ret' = [op |-> "apply", arg |-> query, operator |-> r.operator,
                      result |-> r.result]
    /\ UNCHANGED <<indexes, use_lazy, use_nbest, kwfwd>>

\* index.apply(terms) with a raw term list
ApplyRaw ==
    /\ ret.op = "none"
    /\ \E t \in TermLists :
         ret' = [op |-> "apply_raw", terms |-> t,
                 result |-> CatalogKeywordIndex_search(
                                kwfwd, [isstr |-> FALSE, terms |-> t], "and")]
    /\ UNCHANGED <<indexes, use_lazy, use_nbest, kwfwd, query>>

NextKw == InsertForward \/ Search \/ MakeQuery \/ Apply \/ ApplyRaw \/ Return

SpecKw == Init /\ [][NextKw]_vars

---------------------------------------------------------------------------
(* Properties of the keyword index *)

Posting(term) == IF term \in DOMAIN kwfwd THEN kwfwd[term] ELSE {}
TermsOf(q) == {q.terms[i] : i \in 1..Len(q.terms)}

\* C5: search with `and` is the intersection of the posting sets of all the
\* terms (an unknown term contributes the empty set), with `or` their union;
\* one term gives exactly its posting set whatever the operator; no term
\* gives the empty set.
C5_BooleanSearch ==
    ret.op = "search"
        => /\ ret.operator = "and" /\ ret.q.terms # <<>>
                => ret.result = {d \in KwDocIds : \A t \in TermsOf(ret.q) : d \in Posting(t)}
           /\ ret.operator = "or"
                => ret.result = {d \in KwDocIds : \E t \in TermsOf(ret.q) : d \in Posting(t)}
           /\ Len(ret.q.terms) = 1 => ret.result = Posting(ret.q.terms[1])
           /\ ret.q.terms = <<>> => ret.result = {}

\* With 1:[red,big] and 2:[red], search([red,big], and) has returned {1}.
C5_Witness ==
    /\ ret.op = "search"
    /\ ret.q = [isstr |-> FALSE, terms |-> <<"red", "big">>]
    /\ ret.operator = "and"
    /\ Posting("red") = {1, 2}
    /\ Posting("big") = {1}
    /\ ret.result = {1}

\* C10: apply leaves the caller's structured query as it was, so a second
\* apply of the same object uses the same operator.
C10_ApplyLeavesQuery ==
    ret.op = "apply"
        => /\ query = ret.arg
           /\ CatalogKeywordIndex_apply(kwfwd, query).operator = ret.operator
           /\ CatalogKeywordIndex_apply(kwfwd, query).result = ret.result

---------------------------------------------------------------------------
(* Catalog *)

MaxCatDoc == 4      \* document ids given to the catalog: 1..MaxCatDoc
MaxItems == 2       \* (docid, obj) pairs in one bulk update

NotAnInt == -4      \* a document id that is not an int

CatDocIds == 1..MaxCatDoc
\* Documents given to the catalog carry, per attribute, the value 1, a
\* persistent object, or nothing.
CatDocuments == [IndexNames -> {1, Marker, PersistentObj}]

\* assertint
assertint(docid) == docid # NotAnInt

Orderings(S) ==
    {s \in [1..Cardinality(S) -> S] : \A i, j \in 1..Cardinality(S) : s[i] = s[j] => i = j}

\* `for index in self.values(): index.index_doc(docid, obj)`, in the order
\* `names`; an exception ends the loop and leaves the earlier indexes updated.
RECURSIVE IndexInAll(_, _, _, _)
IndexInAll(idxs, names, docid, obj) ==
    IF names = <<>> THEN [idxs |-> idxs, err |-> "none"]
    ELSE LET n == Head(names)
             r == CatalogIndex_index_doc(idxs[n], docid, Discriminate(n, obj))
         IN  IF r.err # "none" THEN [idxs |-> idxs, err |-> r.err]
             ELSE IndexInAll([idxs EXCEPT ![n] = r.ix], Tail(names), docid, obj)

\* Catalog.index_doc
Catalog_index_doc(idxs, names, docid, obj) ==
    IF ~assertint(docid) THEN [idxs |-> idxs, err |-> "ValueError: not an integer"]
    ELSE IndexInAll(idxs, names, docid, obj)

\* Catalog.unindex_doc
Catalog_unindex_doc(idxs, docid) ==
    IF ~assertint(docid) THEN [idxs |-> idxs, err |-> "ValueError: not an integer"]
    ELSE [idxs |-> [n \in DOMAIN idxs |-> CatalogFieldIndex_unindex_doc(idxs[n], docid)],
          err |-> "none"]

\* Catalog.updateIndexes: items is a sequence of <<docid, obj>>.
RECURSIVE Catalog_updateIndexes(_, _, _)
Catalog_updateIndexes(idxs, names, items) ==
    IF items = <<>> THEN [idxs |-> idxs, err |-> "none"]
    ELSE LET r == Catalog_index_doc(idxs, names, Head(items)[1], Head(items)[2])
         IN  IF r.err # "none" THEN r
             ELSE Catalog_updateIndexes(r.idxs, names, Tail(items))

\* Catalog.updateIndex
Catalog_updateIndex(idxs, name, items) ==
    IF name \notin DOMAIN idxs THEN [idxs |-> idxs, err |-> "KeyError"]
    ELSE Catalog_updateIndexes(idxs, <<name>>, items)

\* FieldIndex.apply of the base class: the documents whose value lies in the
\* range <<lo, hi>>.
FieldIndex_apply(ix, q) ==
    UNION {ix.fwd[v] : v \in {w \in DOMAIN ix.fwd : q[1] <= w /\ w <= q[2]}}

\* family.IF.weightedIntersection on two sets: (weight, intersection)
IF_weightedIntersection(a, b) == <<1, a \cap b>>

\* results.sort(): (len(r), r) pairs, smallest first.  Pairs of one size are
\* left in the order they were appended in.
RECURSIVE SortResults(_)
SortResults(results) ==
    IF results = <<>> THEN <<>>
    ELSE LET sorted == SortResults(Front(results))
             last == results[Len(results)]
             n == Cardinality({i \in 1..Len(sorted) : sorted[i][1] <= last[1]})
         IN  Take(sorted, n) \o <<last>> \o Drop(sorted, n)

\* lines 326-328: pop the smallest, fold the others into it.
RECURSIVE FoldFrom(_, _)
FoldFrom(result, rest) ==
    IF rest = <<>> THEN result
    ELSE FoldFrom(IF_weightedIntersection(result, Head(rest)[2])[2], Tail(rest))

\* Variant that pops the smallest result and folds nothing into it.
MutFoldKeepsSmallest(results) == results[1][2]

FoldResults(results) == FoldFrom(results[1][2], Tail(results))

\* lines 307-318: the loop over query.items(), taken in the order `order`.
RECURSIVE ApplyQueries(_, _, _, _)
ApplyQueries(idxs, q, order, results) ==
    IF order = <<>> THEN [kind |-> "all", results |-> results]
    ELSE LET name == Head(order)
         IN  IF name \notin DOMAIN idxs
             THEN [kind |-> "unknown", results |-> results]
             ELSE LET r == FieldIndex_apply(idxs[name], q[name])
                  IN  IF r = {} THEN [kind |-> "empty", results |-> results]
                      ELSE ApplyQueries(idxs, q, Tail(order),
                                        Append(results, <<Cardinality(r), r>>))

\* lines 336-339
SearchCount(numdocs, limit) ==
    IF limit = NoLimit THEN numdocs
    ELSE IF numdocs < limit[1] THEN numdocs ELSE limit[1]

\* Catalog.searchResults.  q: index name -> sub-query, order: the order in
\* which query.items() yields the keys.  sort_index "" is no sort index.
\* The set of outcomes [err, count, result, sorted]: result is the set of
\* the intersection, sorted the outcome of consuming the sort generator.
NotSorted == [out |-> <<>>, err |-> "not sorted"]
Catalog_searchResults(idxs, q, order, sort_index, reverse, limit, lazyOv, nbestOv) ==
    LET a == ApplyQueries(idxs, q, order, <<>>)
    IN  IF a.kind = "unknown"
        THEN {[err |-> "ValueError: no such index", count |-> 0, result |-> {},
               sorted |-> NotSorted]}
        ELSE IF a.kind = "empty" \/ a.results = <<>>
        THEN {[err |-> "none", count |-> 0, result |-> {}, sorted |-> NotSorted]}
        ELSE LET result == FoldResults(SortResults(a.results))
                 numdocs == Cardinality(result)
             IN  IF sort_index = ""
                 THEN {[err |-> "none", count |-> SearchCount(numdocs, limit),
                        result |-> result, sorted |-> NotSorted]}
                 ELSE IF sort_index \notin DOMAIN idxs
                 THEN {[err |-> "KeyError", count |-> 0, result |-> {},
                        sorted |-> NotSorted]}
                 ELSE {[err |-> "none", count |-> SearchCount(numdocs, limit),
                        result |-> result, sorted |-> s] :
                         s \in CatalogFieldIndex_sort(idxs[sort_index], result, reverse,
                                                      limit, lazyOv, nbestOv)}

---------------------------------------------------------------------------
(* State machine: the catalog with the field indexes "A" and "B" *)

IndexOrders == Orderings(IndexNames)

\* catalog.index_doc(docid, obj)
CatIndexDoc ==
    /\ ret.op = "none"
    /\ \E docid \in CatDocIds \cup {NotAnInt}, obj \in CatDocuments,
          names \in IndexOrders :
         LET r == Catalog_index_doc(indexes, names, docid, obj)
         IN  /\ indexes' = r.idxs
             /\ ret' = [op |-> "cat_index_doc", nonint |-> ~assertint(docid),
                        pre |-> indexes, err |-> r.err]
    /\ UNCHANGED <<use_lazy, use_nbest, kwfwd, query>>

\* catalog.unindex_doc(docid)
CatUnindexDoc ==
    /\ ret.op = "none"
    /\ \E docid \in CatDocIds \cup {NotAnInt} :
         LET r == Catalog_unindex_doc(indexes, docid)
         IN  /\ indexes' = r.idxs
             /\ ret' = [op |-> "cat_unindex_doc", nonint |-> ~assertint(docid),
                        pre |-> indexes, err |-> r.err]
    /\ UNCHANGED <<use_lazy, use_nbest, kwfwd, query>>

ItemLists == SeqsUpTo((CatDocIds \cup {NotAnInt}) \X CatDocuments, MaxItems)
HasNonInt(items) == \E i \in 1..Len(items) : ~assertint(items[i][1])

\* catalog.updateIndexes(items)
UpdateIndexes ==
    /\ ret.op = "none"
    /\ \E items \in ItemLists, names \in IndexOrders :
         LET r == Catalog_updateIndexes(indexes, names, items)
         IN  /\ indexes' = r.idxs
             /\ ret' = [op |-> "updateIndexes", nonint |-> HasNonInt(items),
                        pre |-> indexes, err |-> r.err]
    /\ UNCHANGED <<use_lazy, use_nbest, kwfwd, query>>

\* catalog.updateIndex(name, items)
UpdateIndex ==
    /\ ret.op = "none"
    /\ \E items \in ItemLists, name \in IndexNames \cup {"X"} :
         LET r == Catalog_updateIndex(indexes, name, items)
         IN  /\ indexes' = r.idxs
             /\ ret' = [op |-> IF name \in IndexNames THEN "updateIndex"
                                                      ELSE "updateIndex (no index)",
                        nonint |-> HasNonInt(items),
                        pre |-> indexes, err |-> r.err]
    /\ UNCHANGED <<use_lazy, use_nbest, kwfwd, query>>

QueryKeys == IndexNames \cup {"X"}           \* "X" names no registered index
SubQueries == {<<1, 1>>, <<2, 2>>}           \* no document carries the value 2
CatQueries == UNION {[K -> SubQueries] : K \in SUBSET QueryKeys}
CatLimits == {NoLimit} \cup {<<n>> : n \in -1..MaxLimit}

\* catalog.searchResults(**query)
CatSearch ==
    /\ ret.op = "none"
    /\ \E q \in CatQueries, sort_index \in {"", "A"}, reverse \in BOOLEAN,
          limit \in CatLimits :
         /\ (sort_index = "" => ~reverse)
         /\ \E order \in Orderings(DOMAIN q) :
              \E r \in Catalog_searchResults(indexes, q, order, sort_index, reverse,
                                             limit, use_lazy, use_nbest) :
                 ret' = [op |-> "searchResults", q |-> q, sort_index |-> sort_index,
                         reverse |-> reverse, limit |-> limit, err |-> r.err,
                         count |-> r.count, result |-> r.result, sorted |-> r.sorted]
    /\ UNCHANGED <<indexes, use_lazy, use_nbest, kwfwd, query>>

NextSearch == CatIndexDoc \/ CatUnindexDoc \/ CatSearch \/ Return

SpecSearch == Init /\ [][NextSearch]_vars

NextCat == CatIndexDoc \/ CatUnindexDoc \/ UpdateIndexes \/ UpdateIndex \/ Return

SpecCat == Init /\ [][NextCat]_vars

---------------------------------------------------------------------------
(* Properties of the catalog *)

\* The documents every sub-query of q selects.
Selected(q) ==
    {d \in CatDocIds : \A n \in DOMAIN q : d \in FieldIndex_apply(indexes[n], q[n])}

\* C3: a search over registered indexes, with no sort_index and no limit,
\* returns the intersection of what the sub-queries select and its size as
\* the count, whatever the order of the keys and the sizes of the partial
\* results; (0, empty) when a sub-query selects nothing, or when there is no
\* sub-query.
C3_SearchIsIntersection ==
    (/\ ret.op = "searchResults"
     /\ DOMAIN ret.q \subseteq IndexNames
     /\ ret.sort_index = ""
     /\ ret.limit = NoLimit)
        => /\ ret.err = "none"
           /\ ret.q # EmptyMap
                => /\ ret.result = Selected(ret.q)
                   /\ ret.count = Cardinality(Selected(ret.q))
           /\ (ret.q = EmptyMap
                 \/ \E n \in DOMAIN ret.q : FieldIndex_apply(indexes[n], ret.q[n]) = {})
                => /\ ret.result = {}
                   /\ ret.count = 0

\* A selects {1,2,3} and B selects {2,3,4}: the search returned (2, {2,3}).
C3_Witness ==
    /\ ret.op = "searchResults"
    /\ DOMAIN ret.q = {"A", "B"}
    /\ ret.sort_index = ""
    /\ ret.limit = NoLimit
    /\ FieldIndex_apply(indexes["A"], ret.q["A"]) = {1, 2, 3}
    /\ FieldIndex_apply(indexes["B"], ret.q["B"]) = {2, 3, 4}
    /\ ret.count = 2
    /\ ret.result = {2, 3}

\* C4: a non-integer document id given to index_doc or unindex_doc, or found
\* anywhere in the items of updateIndex / updateIndexes, makes the call fail
\* and no registered index is changed by the call (the pairs in front of the
\* offending pair have not been indexed).
C4_NonIntegerBeforeMutation ==
    (/\ ret.op \in {"cat_index_doc", "cat_unindex_doc", "updateIndex", "updateIndexes"}
     /\ ret.nonint)
        => /\ ret.err # "none"
           /\ indexes = ret.pre

\* C6: the count of a search is min(numdocs, limit) when the limit is given
\* and truthy and numdocs otherwise, numdocs being the size of the
\* intersection of the sub-query results: never negative, never above
\* numdocs, and numdocs itself when limit = 0.
C6_SearchCount ==
    (/\ ret.op = "searchResults"
     /\ ret.q # EmptyMap
     /\ DOMAIN ret.q \subseteq IndexNames
     /\ ret.err = "none")
        => LET numdocs == Cardinality(Selected(ret.q))
           IN  /\ (ret.limit = NoLimit \/ ret.limit[1] >= 0)
                     => ret.count = IF ret.limit # NoLimit /\ ret.limit[1] # 0
                                        /\ ret.limit[1] < numdocs
                                     THEN ret.limit[1] ELSE numdocs
               /\ 0 <= ret.count
               /\ ret.count <= numdocs

\* C7: a search whose query names an index that is not registered fails
\* with the no-such-index error, whatever the other sub-queries select and
\* whatever the order of the keys.
C7_UnknownIndexFails ==
    (ret.op = "searchResults" /\ "X" \in DOMAIN ret.q)
        => ret.err = "ValueError: no such index"

====
